---- MODULE Spec2Model ----
(***************************************************************************)
(* Order placement and order status of the shop backend                    *)
(* (src/backend/main.py, src/backend/models.py, src/backend/schemas.py).   *)
(*                                                                         *)
(* The database tables are the variables inventory, orders and             *)
(* order_items; they hold committed rows only.  Every tool call runs in    *)
(* its own AsyncSession.  A call is cut into steps at its await points:    *)
(* a SELECT reads the rows committed at that moment, a commit writes the   *)
(* whole unit of work of the session in one transaction (or fails and      *)
(* writes nothing).  The code between two awaits runs without              *)
(* interleaving (one asyncio event loop).                                  *)
(*                                                                         *)
(* Money is kept in integer minor units (2.50 is 250): the code computes   *)
(* float(price) * qty and adds the line totals in request order, and the   *)
(* model performs the same operations in the same order.                   *)
(***************************************************************************)
EXTENDS Integers, Sequences, FiniteSets, TLC

\* ---------------------------------------------------------------- bounds
\* Number of concurrent place_order calls.
NCalls == 2
\* Longest items list of a request.
MaxLines == 2
\* Largest quantity a request line asks for.
MaxReqQty == 2
\* Number of concurrent mark_order_shipped sessions (each may be reused).
NShipCalls == 1
\* Number of concurrent owner sessions editing the inventory (each may be reused).
NOwnerCalls == 1
\* Number of place_order calls made one after the other.
NSerialCalls == 3
\* Largest reading of the clock.
MaxClock == 2
\* Largest id add_item gives an inventory row.
MaxItemId == 3
\* Number of concurrent owner sessions where owners work side by side.
NGuardCalls == 2
\* Number of /register/submit requests.
NRegCalls == 2
\* Largest number of rows in the owners table.
MaxOwners == 3

Calls == 1..NCalls
ShipCalls == 1..NShipCalls
OwnerCalls == 1..NOwnerCalls
SerialCalls == 1..NSerialCalls
GuardCalls == 1..NGuardCalls
RegCalls == 1..NRegCalls

\* Business ids and owner ids a caller may pass.
BusinessIds == {1, 2}
OwnerIds == {1, 2}
\* businesses table: Business.owner_id by Business.id.
BusinessOwner == (1 :> 1) @@ (2 :> 2)

\* inventory_items rows present at start: two items of business 1; business
\* 2 has none.  Id 3 is the id of no row.
InitInventory ==
    (1 :> [business_id |-> 1, name |-> "widget", price |-> 250, qty |-> 2]) @@
    (2 :> [business_id |-> 1, name |-> "gadget", price |-> 100, qty |-> 1])
RequestItemIds == (DOMAIN InitInventory) \cup {3}

\* Quantities a request line may carry: items is a List[dict], so nothing
\* keeps a caller from sending a quantity below 1.
RequestQtys == 0..MaxReqQty

VARIABLES
    inventory,    \* inventory_items: id -> [business_id, name, price, qty]
    orders,       \* orders: sequence indexed by Order.id
    order_items,  \* order_items: sequence indexed by OrderItem.id
    pc,           \* place_order call -> "idle" | "loop" | "commit1" | "commit2" | "done"
    req,          \* place_order call -> its arguments
    sess,         \* place_order call -> identity map of its session: item id -> loaded row
    lines,        \* place_order call -> the local list order_items
    total,        \* place_order call -> the local total
    order_id,     \* place_order call -> order.id after the first commit (0 before)
    result,       \* place_order call -> what the call returned or raised
    wrote,        \* place_order call -> ids of the inventory rows its commits updated
    ship,         \* mark_order_shipped session -> [pc, owner_id, order_id, was, result]
    own,          \* owner session -> the inventory tool call it is running
    clock,        \* datetime.utcnow()
    listed,       \* what the last list_orders call returned: [owner_id, out]
    owners,       \* owners table: owner id -> [registration_token]
    businesses,   \* businesses table: business id -> [owner_id]
    reg           \* /register/submit request -> [pc, token, item, owner, business_id, result]

vars == <<inventory, orders, order_items, pc, req, sess, lines, total,
          order_id, result, wrote, ship, own, clock, listed, owners, businesses, reg>>

dbvars == <<inventory, orders, order_items>>
callvars == <<pc, req, sess, lines, total, order_id, result, wrote>>
regvars == <<owners, businesses, reg>>
ownvars == <<own, clock, listed, regvars>>

\* ------------------------------------------------------------- helpers
RECURSIVE SeqsUpTo(_, _)
SeqsUpTo(S, n) ==
    IF n = 0 THEN {<<>>}
    ELSE LET shorter == SeqsUpTo(S, n - 1)
         IN shorter \cup {Append(s, x) : s \in {t \in shorter : Len(t) = n - 1}, x \in S}

\* The items argument: a list of {"item_id": .., "qty": ..} dicts.
RequestLines == [item_id : RequestItemIds, qty : RequestQtys]
Requests == [business_id : BusinessIds, items : SeqsUpTo(RequestLines, MaxLines)]

NoRequest == [business_id |-> 0, items |-> <<>>]
EmptyMap == [x \in {} |-> 0]

\* What a place_order call hands back: the kind of message (or the raised
\* error) and, for "Order placed: {order.id} total={total}", its two numbers.
NoResult == [kind |-> "none", order_id |-> 0, total |-> 0]
Returned(kind, oid, tot) == [kind |-> kind, order_id |-> oid, total |-> tot]

\* An owner session that runs no call.
IdleOwner == [pc |-> "idle", op |-> "none", owner_id |-> 0, target |-> 0,
              edit |-> <<>>, row |-> <<>>, result |-> "none"]

\* A /register/submit request that has not been made.  A missing form field
\* and a NULL column are <<>>, a value v is <<v>>.
IdleReg == [pc |-> "idle", token |-> <<>>, item |-> <<>>, owner |-> 0,
            business_id |-> 0, result |-> "none"]

\* The state after init_db, with the inventory rows inv in the store, the
\* place_order calls C still to be made and the owner sessions S idle.
InitOf(C, S, inv) ==
    /\ inventory = inv
    /\ orders = <<>>
    /\ order_items = <<>>
    /\ pc = [p \in C |-> "idle"]
    /\ req = [p \in C |-> NoRequest]
    /\ sess = [p \in C |-> EmptyMap]
    /\ lines = [p \in C |-> <<>>]
    /\ total = [p \in C |-> 0]
    /\ order_id = [p \in C |-> 0]
    /\ result = [p \in C |-> NoResult]
    /\ wrote = [p \in C |-> {}]
    /\ ship = [s \in ShipCalls |->
                 [pc |-> "idle", owner_id |-> 0, order_id |-> 0, was |-> "none", result |-> "none"]]
    /\ own = [s \in S |-> IdleOwner]
    /\ clock = 0
    /\ listed = [owner_id |-> 0, out |-> <<>>]
    /\ owners = [o \in OwnerIds |-> [registration_token |-> <<>>]]
    /\ businesses = [b \in BusinessIds |-> [owner_id |-> BusinessOwner[b]]]
    /\ reg = [r \in RegCalls |-> IdleReg]

\* The state after init_db with the owner sessions OwnerCalls.
InitWith(C, inv) == InitOf(C, OwnerCalls, inv)

Init == InitWith(Calls, InitInventory)

\* place_order is called: the session is opened, total = 0.0, order_items = [].
\* An empty items list skips the loop.
PlaceOrderCall(p, r) ==
    /\ pc[p] = "idle"
    /\ req' = [req EXCEPT ![p] = r]
    /\ pc' = [pc EXCEPT ![p] = IF r.items = <<>> THEN "commit1" ELSE "loop"]
    /\ UNCHANGED <<dbvars, sess, lines, total, order_id, result, wrote, ship, ownvars>>

\* The call returns or raises: `async with` closes the session and the
\* locals are gone.
Return(p, r) ==
    /\ pc' = [pc EXCEPT ![p] = "done"]
    /\ result' = [result EXCEPT ![p] = r]
    /\ sess' = [sess EXCEPT ![p] = EmptyMap]
    /\ lines' = [lines EXCEPT ![p] = <<>>]
    /\ total' = [total EXCEPT ![p] = 0]
    /\ order_id' = [order_id EXCEPT ![p] = 0]

\* select(InventoryItem).where(id == item_id, business_id == business_id):
\* whether the query returns a row.
Resolves(inv, business_id, item_id) ==
    /\ item_id \in DOMAIN inv
    /\ inv[item_id].business_id = business_id

\* The ORM object the query hands back: a row already in the session's
\* identity map is returned as loaded earlier (its attributes are not
\* refreshed), a new one is loaded from the committed row.
LoadItem(s, inv, item_id) ==
    IF item_id \in DOMAIN s THEN s
    ELSE s @@ (item_id :> [name |-> inv[item_id].name,
                           price |-> inv[item_id].price,
                           qty |-> inv[item_id].qty])

\* Faulty variant of InsufficientStock: an order for all that is left is
\* turned away.
InsufficientStockInclusive(have, want) == have <= want

\* if db_item.qty < qty: return "Not enough stock ..."
InsufficientStock(have, want) == have < want

\* line_total = float(db_item.price) * qty
LineTotal(price, qty) == price * qty

\* Faulty variant of InventoryAfterLine: the line's quantity is taken off the stock
\* as soon as the line is accepted.
InventoryAfterLineEager(inv, item_id, qty) ==
    [inv EXCEPT ![item_id].qty = @ - qty]

\* The validation loop writes nothing: the inventory rows after an
\* iteration that accepted `qty` of item_id.
InventoryAfterLine(inv, item_id, qty) == inv

\* One iteration of the validation loop: the SELECT of the next line and the
\* checks that follow it, up to the next await.
Validate(p) ==
    /\ pc[p] = "loop"
    /\ LET k == Len(lines[p]) + 1
           it == req[p].items[k]
       IN IF ~Resolves(inventory, req[p].business_id, it.item_id)
          THEN /\ Return(p, Returned("ItemNotFound", 0, 0))
               /\ UNCHANGED <<inventory, wrote>>
          ELSE LET s2 == LoadItem(sess[p], inventory, it.item_id)
                   db_item == s2[it.item_id]
               IN IF InsufficientStock(db_item.qty, it.qty)
                  THEN /\ Return(p, Returned("NotEnoughStock", 0, 0))
                       /\ UNCHANGED <<inventory, wrote>>
                  ELSE /\ sess' = [sess EXCEPT ![p] = s2]
                       /\ lines' = [lines EXCEPT ![p] = Append(@,
                               [item_id |-> it.item_id, qty |-> it.qty,
                                unit_price |-> db_item.price,
                                line_total |-> LineTotal(db_item.price, it.qty)])]
                       /\ total' = [total EXCEPT ![p] = @ + LineTotal(db_item.price, it.qty)]
                       /\ pc' = [pc EXCEPT ![p] =
                                    IF k = Len(req[p].items) THEN "commit1" ELSE "loop"]
                       /\ inventory' = InventoryAfterLine(inventory, it.item_id, it.qty)
                       /\ wrote' = [wrote EXCEPT ![p] =
                                       @ \cup {i \in DOMAIN inventory : inventory'[i] # inventory[i]}]
                       /\ UNCHANGED <<result, order_id>>
    /\ UNCHANGED <<orders, order_items, req, ship, ownvars>>

\* order = Order(..., status="pending", total_amount=total); session.add(order);
\* await session.commit(); await session.refresh(order).  created_at takes its
\* default, the clock at the INSERT.  The refresh re-reads the row just
\* inserted; only order.id is used afterwards.
Commit1(p) ==
    /\ pc[p] = "commit1"
    /\ orders' = Append(orders, [business_id |-> req[p].business_id,
                                 customer_name |-> p,
                                 status |-> "pending",
                                 total_amount |-> total[p],
                                 created_at |-> clock])
    /\ order_id' = [order_id EXCEPT ![p] = Len(orders) + 1]
    /\ pc' = [pc EXCEPT ![p] = "commit2"]
    /\ UNCHANGED <<inventory, order_items, req, sess, lines, total, result, wrote, ship, ownvars>>

\* The first commit raises (storage error): nothing is written and the
\* exception leaves the call.
Commit1Fail(p) ==
    /\ pc[p] = "commit1"
    /\ Return(p, Returned("CommitFailed", 0, 0))
    /\ UNCHANGED <<dbvars, req, wrote, ship, ownvars>>

\* The second loop subtracts each line's qty from its db_item in turn, so an
\* item named by several lines ends at its loaded qty minus their sum.
RECURSIVE SumQty(_, _)
SumQty(ls, item_id) ==
    IF ls = <<>> THEN 0
    ELSE (IF Head(ls).item_id = item_id THEN Head(ls).qty ELSE 0) + SumQty(Tail(ls), item_id)

\* db_item.qty after the second loop.
NewQty(p, item_id) == sess[p][item_id].qty - SumQty(lines[p], item_id)

\* The rows the flush UPDATEs: the unit of work writes an attribute only when
\* its value differs from the loaded one.
Dirty(p) == {i \in DOMAIN sess[p] : NewQty(p, i) # sess[p][i].qty}

\* The OrderItem rows the second loop adds.
NewOrderItems(p) ==
    [k \in 1..Len(lines[p]) |->
        [order_id |-> order_id[p],
         inventory_item_id |-> lines[p][k].item_id,
         name |-> sess[p][lines[p][k].item_id].name,
         qty |-> lines[p][k].qty,
         unit_price |-> lines[p][k].unit_price,
         total_price |-> lines[p][k].line_total]]

\* Faulty variant of InventoryAfterOrder: the UPDATE lacks its WHERE clause
\* and sets the qty of every row.
InventoryAfterOrderNoWhere(inv, p) ==
    [i \in DOMAIN inv |->
        IF Dirty(p) = {} THEN inv[i]
        ELSE [inv[i] EXCEPT !.qty = NewQty(p, CHOOSE d \in Dirty(p) : TRUE)]]

\* The inventory rows after the flush of the second commit:
\* UPDATE inventory_items SET qty = <db_item.qty> WHERE id = <db_item.id>
\* for every dirty row.
InventoryAfterOrder(inv, p) ==
    [i \in DOMAIN inv |->
        IF i \in Dirty(p) THEN [inv[i] EXCEPT !.qty = NewQty(p, i)] ELSE inv[i]]

\* The second commit: the order items and the inventory updates in one
\* transaction.  An UPDATE of a row that is gone matches nothing and makes
\* the flush raise.
Commit2(p) ==
    /\ pc[p] = "commit2"
    /\ Dirty(p) \subseteq DOMAIN inventory
    /\ order_items' = order_items \o NewOrderItems(p)
    /\ inventory' = InventoryAfterOrder(inventory, p)
    /\ wrote' = [wrote EXCEPT ![p] = @ \cup Dirty(p)]
    /\ Return(p, Returned("OrderPlaced", order_id[p], total[p]))
    /\ UNCHANGED <<orders, req, ship, ownvars>>

\* Faulty variant of InventoryAfterRollback: the stock updates of the failed
\* transaction stay.
InventoryAfterRollbackKept(inv, p) == InventoryAfterOrder(inv, p)

\* The inventory rows after a second commit that raised: the transaction is
\* rolled back.
InventoryAfterRollback(inv, p) == inv

\* The second commit raises: its transaction is rolled back, the order row
\* of the first commit stays.
Commit2Fail(p) ==
    /\ pc[p] = "commit2"
    /\ inventory' = InventoryAfterRollback(inventory, p)
    /\ wrote' = [wrote EXCEPT ![p] =
                    @ \cup {i \in DOMAIN inventory : inventory'[i] # inventory[i]}]
    /\ Return(p, Returned("CommitFailed", 0, 0))
    /\ UNCHANGED <<orders, order_items, req, ship, ownvars>>

\* select(Order).where(Order.id == order_id).join(Business)
\*     .where(Business.owner_id == owner_id): whether the query returns a row.
OrderOwnedBy(ords, owner_id, oid) ==
    /\ oid \in 1..Len(ords)
    /\ ords[oid].business_id \in DOMAIN BusinessOwner
    /\ BusinessOwner[ords[oid].business_id] = owner_id

\* mark_order_shipped up to its commit: the SELECT and the not-found return.
\* `was` keeps the status the order was loaded with.
ShipSelect(s, owner_id, oid) ==
    /\ ship[s].pc \in {"idle", "done"}
    /\ IF OrderOwnedBy(orders, owner_id, oid)
       THEN ship' = [ship EXCEPT ![s] = [pc |-> "loaded", owner_id |-> owner_id,
                                         order_id |-> oid, was |-> orders[oid].status,
                                         result |-> "none"]]
       ELSE ship' = [ship EXCEPT ![s] = [pc |-> "done", owner_id |-> owner_id,
                                         order_id |-> oid, was |-> "none",
                                         result |-> "NotFound"]]
    /\ UNCHANGED <<dbvars, callvars, ownvars>>

\* Faulty variant of ShippedStatus: the wrong status string is written.
ShippedStatusSkip(was) == "completed"

\* order.status = "shipped": the status written for an order loaded with
\* status `was`.
ShippedStatus(was) == "shipped"

\* return "Order marked shipped.": the message for an order loaded with
\* status `was`.
ShipMessage(was) == "Shipped"

\* Faulty variant of OrderAfterShip: the flush writes the column defaults
\* over the other columns of the row.
OrderAfterShipDefaults(order, was) ==
    [order EXCEPT !.status = ShippedStatus(was), !.total_amount = 0]

\* The orders row after the flush of mark_order_shipped: UPDATE orders SET
\* status = ... writes the one attribute that was assigned.
OrderAfterShip(order, was) == [order EXCEPT !.status = ShippedStatus(was)]

\* order.status = "shipped"; await session.commit(); return the message.
ShipCommit(s) ==
    /\ ship[s].pc = "loaded"
    /\ orders' = [orders EXCEPT ![ship[s].order_id] = OrderAfterShip(@, ship[s].was)]
    /\ ship' = [ship EXCEPT ![s].pc = "done", ![s].result = ShipMessage(ship[s].was)]
    /\ UNCHANGED <<inventory, order_items, callvars, ownvars>>

\* ------------------------------------------------ the owner's inventory tools
\* select(InventoryItem).where(InventoryItem.id == item_id).join(Business)
\*     .where(Business.owner_id == owner_id): whether the query returns a row.
ItemOwnedBy(inv, owner_id, item_id) ==
    /\ item_id \in DOMAIN inv
    /\ inv[item_id].business_id \in DOMAIN BusinessOwner
    /\ BusinessOwner[inv[item_id].business_id] = owner_id

\* select(Business).where(Business.id == business_id,
\*     Business.owner_id == owner_id): whether the query returns a row.
BusinessOwnedBy(owner_id, business_id) ==
    /\ business_id \in DOMAIN BusinessOwner
    /\ BusinessOwner[business_id] = owner_id

\* The optional arguments of update_item: <<>> is None, <<v>> is the value v.
NoEdit == [name |-> <<>>, price |-> <<>>, qty |-> <<>>]
Edits ==
    {[NoEdit EXCEPT !.name = <<"renamed">>, !.price = <<300>>],
     [NoEdit EXCEPT !.qty = <<1>>]}

\* The rows add_item is called with.
NewItems == {[name |-> "extra", price |-> 50, qty |-> 1]}

\* An owner session starts a call: the locals of the previous one are gone.
OwnerFree(s) == own[s].pc \in {"idle", "done"}

\* An owner session whose call `op` on `target` returned `msg`: `async with`
\* closes the session and the locals are gone.
OwnerDone(op, target, msg) ==
    [IdleOwner EXCEPT !.pc = "done", !.op = op, !.target = target, !.result = msg]

\* update_item up to its commit: the SELECT and the not-found return.
UpdateSelect(s, owner_id, item_id, e) ==
    /\ OwnerFree(s)
    /\ own' = [own EXCEPT ![s] =
                 IF ItemOwnedBy(inventory, owner_id, item_id)
                 THEN [pc |-> "loaded", op |-> "update_item", owner_id |-> owner_id,
                       target |-> item_id, edit |-> <<e>>,
                       row |-> <<inventory[item_id]>>, result |-> "none"]
                 ELSE OwnerDone("update_item", item_id, "NotFound")]
    /\ UNCHANGED <<dbvars, callvars, ship, clock, listed, regvars>>

\* if name is not None: item.name = name, and so on: the value of an
\* attribute after the assignments, given its loaded value.
Edited(arg, loaded) == IF arg = <<>> THEN loaded ELSE arg[1]

\* Faulty variant of OrderItemsAfterUpdate: the edit also rewrites the stored
\* lines of the item.
OrderItemsAfterUpdateRewritten(ois, item_id, e) ==
    [k \in 1..Len(ois) |->
        IF ois[k].inventory_item_id = item_id
        THEN [ois[k] EXCEPT !.name = Edited(e.name, @),
                            !.unit_price = Edited(e.price, @)]
        ELSE ois[k]]

\* update_item writes no order line: the order_items rows after its commit.
OrderItemsAfterUpdate(ois, item_id, e) == ois

\* The inventory row after the flush of update_item: the UPDATE sets the
\* attributes whose value differs from the loaded one and leaves the other
\* columns as they are in the store.
ItemAfterUpdate(stored, loaded, e) ==
    [stored EXCEPT
        !.name = IF Edited(e.name, loaded.name) # loaded.name
                 THEN Edited(e.name, loaded.name) ELSE @,
        !.price = IF Edited(e.price, loaded.price) # loaded.price
                  THEN Edited(e.price, loaded.price) ELSE @,
        !.qty = IF Edited(e.qty, loaded.qty) # loaded.qty
                THEN Edited(e.qty, loaded.qty) ELSE @]

\* Whether the flush of update_item emits an UPDATE.
UpdateDirty(loaded, e) ==
    \/ Edited(e.name, loaded.name) # loaded.name
    \/ Edited(e.price, loaded.price) # loaded.price
    \/ Edited(e.qty, loaded.qty) # loaded.qty

\* The assignments of update_item, await session.commit() and the return.
\* An UPDATE of a row that is gone makes the flush raise.
UpdateCommit(s) ==
    /\ own[s].pc = "loaded"
    /\ own[s].op = "update_item"
    /\ LET t == own[s].target
           e == own[s].edit[1]
           loaded == own[s].row[1]
       IN IF UpdateDirty(loaded, e) /\ t \notin DOMAIN inventory
          THEN /\ own' = [own EXCEPT ![s] = OwnerDone("update_item", t, "CommitFailed")]
               /\ UNCHANGED dbvars
          ELSE /\ inventory' = IF UpdateDirty(loaded, e)
                               THEN [inventory EXCEPT ![t] = ItemAfterUpdate(@, loaded, e)]
                               ELSE inventory
               /\ order_items' = OrderItemsAfterUpdate(order_items, t, e)
               /\ own' = [own EXCEPT ![s] = OwnerDone("update_item", t, "Updated")]
               /\ UNCHANGED orders
    /\ UNCHANGED <<callvars, ship, clock, listed, regvars>>

\* delete_item up to its commit: the SELECT and the not-found return.
DeleteSelect(s, owner_id, item_id) ==
    /\ OwnerFree(s)
    /\ own' = [own EXCEPT ![s] =
                 IF ItemOwnedBy(inventory, owner_id, item_id)
                 THEN [pc |-> "loaded", op |-> "delete_item", owner_id |-> owner_id,
                       target |-> item_id, edit |-> <<>>,
                       row |-> <<inventory[item_id]>>, result |-> "none"]
                 ELSE OwnerDone("delete_item", item_id, "NotFound")]
    /\ UNCHANGED <<dbvars, callvars, ship, clock, listed, regvars>>

\* Faulty variant of OrderItemsAfterDelete: the delete cascades to the
\* order lines that name the item.
OrderItemsAfterDeleteCascade(ois, item_id) ==
    SelectSeq(ois, LAMBDA oi : oi.inventory_item_id # item_id)

\* The order_items rows after the commit of delete_item: no relationship
\* cascades from InventoryItem to OrderItem and SQLite does not enforce the
\* foreign key, so the lines stay as they are.
OrderItemsAfterDelete(ois, item_id) == ois

\* await session.delete(item); await session.commit(); return "Item deleted."
DeleteCommit(s) ==
    /\ own[s].pc = "loaded"
    /\ own[s].op = "delete_item"
    /\ inventory' = [i \in DOMAIN inventory \ {own[s].target} |-> inventory[i]]
    /\ order_items' = OrderItemsAfterDelete(order_items, own[s].target)
    /\ own' = [own EXCEPT ![s] = OwnerDone("delete_item", own[s].target, "Deleted")]
    /\ UNCHANGED <<orders, callvars, ship, clock, listed, regvars>>

\* The id SQLite gives the next inventory row: the primary key is an INTEGER
\* PRIMARY KEY without AUTOINCREMENT, so it is the largest id in use plus one.
NextItemId(inv) ==
    IF DOMAIN inv = {} THEN 1
    ELSE 1 + CHOOSE m \in DOMAIN inv : \A i \in DOMAIN inv : i <= m

\* add_item up to its commit: the SELECT of the business and the not-found
\* return.
AddSelect(s, owner_id, business_id, item) ==
    /\ OwnerFree(s)
    /\ NextItemId(inventory) <= MaxItemId
    /\ own' = [own EXCEPT ![s] =
                 IF BusinessOwnedBy(owner_id, business_id)
                 THEN [pc |-> "loaded", op |-> "add_item", owner_id |-> owner_id,
                       target |-> business_id, edit |-> <<>>,
                       row |-> <<item>>, result |-> "none"]
                 ELSE OwnerDone("add_item", business_id, "NotFound")]
    /\ UNCHANGED <<dbvars, callvars, ship, clock, listed, regvars>>

\* session.add(item); await session.commit(); await session.refresh(item);
\* return f"Item {item.id} added."
AddCommit(s) ==
    /\ own[s].pc = "loaded"
    /\ own[s].op = "add_item"
    /\ NextItemId(inventory) <= MaxItemId
    /\ inventory' = inventory @@
           (NextItemId(inventory) :>
               [business_id |-> own[s].target, name |-> own[s].row[1].name,
                price |-> own[s].row[1].price, qty |-> own[s].row[1].qty])
    /\ own' = [own EXCEPT ![s] = OwnerDone("add_item", own[s].target, "Added")]
    /\ UNCHANGED <<orders, order_items, callvars, ship, clock, listed, regvars>>

\* ------------------------------------------------------------ list_orders
\* select(Order).join(Business).where(Business.owner_id == owner_id): the ids
\* of the rows the query matches.
OwnedOrders(ords, owner_id) ==
    {o \in 1..Len(ords) : /\ ords[o].business_id \in DOMAIN BusinessOwner
                          /\ BusinessOwner[ords[o].business_id] = owner_id}

\* Faulty variant of ComesBefore: ascending order.
ComesBeforeAsc(a, b) == a <= b

\* .order_by(Order.created_at.desc()): whether a row created at a may come
\* before a row created at b.  Rows with equal created_at come in any order.
ComesBefore(a, b) == a >= b

\* The orders in which the query may return the rows ids.
QueryOrders(ords, ids) ==
    {q \in [1..Cardinality(ids) -> ids] :
        /\ \A j, k \in 1..Cardinality(ids) : j # k => q[j] # q[k]
        /\ \A j, k \in 1..Cardinality(ids) :
              j < k => ComesBefore(ords[q[j]].created_at, ords[q[k]].created_at)}

\* The dict list_orders builds for an order; the created_at string stands
\* for the timestamp it prints.
OrderOut(ords, o) ==
    [id |-> o, customer_name |-> ords[o].customer_name, status |-> ords[o].status,
     total_amount |-> ords[o].total_amount, created_at |-> ords[o].created_at]

\* list_orders: one SELECT, then the list is built and returned.
ListOrders(owner_id) ==
    /\ \E q \in QueryOrders(orders, OwnedOrders(orders, owner_id)) :
          listed' = [owner_id |-> owner_id,
                     out |-> [k \in 1..Len(q) |-> OrderOut(orders, q[k])]]
    /\ UNCHANGED <<dbvars, callvars, ship, own, clock, regvars>>

\* datetime.utcnow() reads the wall clock, which moves between calls.
ClockMoves(t) ==
    /\ t # clock
    /\ clock' = t
    /\ UNCHANGED <<dbvars, callvars, ship, own, listed, regvars>>

\* ------------------------------------------------------------ registration
\* The register tool: token = secrets.token_urlsafe(20), a string no other
\* owner has (the new owner's id stands for it); Owner(...) is added and
\* committed.
RegisterTool ==
    /\ Cardinality(DOMAIN owners) < MaxOwners
    /\ LET o == Cardinality(DOMAIN owners) + 1
       IN owners' = owners @@ (o :> [registration_token |-> <<o>>])
    /\ UNCHANGED <<dbvars, callvars, ship, own, clock, listed, businesses, reg>>

\* lookup_owner_by_token: select(Owner).where(Owner.registration_token ==
\* token): the ids of the rows the query matches.  With token None the
\* comparison is rendered IS NULL and matches the owners whose token is
\* cleared.
OwnersByToken(ows, token) == {o \in DOMAIN ows : ows[o].registration_token = token}

\* The form fields of /register/submit that matter: the token and the
\* optional initial item.
FormTokens == {<<>>} \cup {<<t>> : t \in 1..MaxOwners}
FormItems == {<<>>, <<[name |-> "starter", price |-> 100, qty |-> 1]>>}

\* submit_register up to its first commit: the form is read, the owner is
\* looked up (.first() of the matching rows) and "Invalid token" is
\* returned when there is none.
RegLookup(r, token, item) ==
    /\ reg[r].pc = "idle"
    /\ IF OwnersByToken(owners, token) = {}
       THEN reg' = [reg EXCEPT ![r] = [IdleReg EXCEPT !.pc = "done", !.token = token,
                                                      !.result = "InvalidToken"]]
       ELSE \E o \in OwnersByToken(owners, token) :
               reg' = [reg EXCEPT ![r] = [IdleReg EXCEPT !.pc = "owner", !.token = token,
                                                         !.item = item, !.owner = o]]
    /\ UNCHANGED <<dbvars, callvars, ship, own, clock, listed, owners, businesses>>

\* owner.registration_token = None: the owners row after the first commit.
OwnerAfterSubmit(owner) == [owner EXCEPT !.registration_token = <<>>]

\* owner.name, owner.contact and owner.registration_token are assigned;
\* await session.commit(); await session.refresh(owner).
RegCommitOwner(r) ==
    /\ reg[r].pc = "owner"
    /\ owners' = [owners EXCEPT ![reg[r].owner] = OwnerAfterSubmit(@)]
    /\ reg' = [reg EXCEPT ![r].pc = "business"]
    /\ UNCHANGED <<dbvars, callvars, ship, own, clock, listed, businesses>>

\* b = Business(owner_id=owner.id, ...); session.add(b); await
\* session.commit(); await session.refresh(b).  Without an initial item the
\* success page is returned.
RegCommitBusiness(r) ==
    /\ reg[r].pc = "business"
    /\ LET b == Cardinality(DOMAIN businesses) + 1
       IN /\ businesses' = businesses @@ (b :> [owner_id |-> reg[r].owner])
          /\ reg' = [reg EXCEPT ![r].business_id = b,
                                ![r].pc = IF reg[r].item = <<>> THEN "done" ELSE "item",
                                ![r].result = IF reg[r].item = <<>> THEN "Registered" ELSE "none"]
    /\ UNCHANGED <<dbvars, callvars, ship, own, clock, listed, owners>>

\* if item_name: it = InventoryItem(business_id=b.id, ...); session.add(it);
\* await session.commit(); the success page is returned.
RegCommitItem(r) ==
    /\ reg[r].pc = "item"
    /\ inventory' = inventory @@
           (NextItemId(inventory) :>
               [business_id |-> reg[r].business_id, name |-> reg[r].item[1].name,
                price |-> reg[r].item[1].price, qty |-> reg[r].item[1].qty])
    /\ reg' = [reg EXCEPT ![r].pc = "done", ![r].result = "Registered"]
    /\ UNCHANGED <<orders, order_items, callvars, ship, own, clock, listed, owners, businesses>>

\* ---------------------------------------------------- tools not registered
\* The tools registered with the server (@mcp.tool).
Tools ==
    {"register", "list_businesses", "get_business_info", "view_inventory",
     "add_item", "update_item", "delete_item", "list_orders",
     "mark_order_shipped", "place_order", "validate"}

\* A client calls the tool `name` on the order oid and no tool of that name
\* is registered: the server answers with an unknown-tool error, no handler
\* runs and nothing is written.
CallUnregistered(s, name, oid) ==
    /\ OwnerFree(s)
    /\ name \notin Tools
    /\ own' = [own EXCEPT ![s] = OwnerDone(name, oid, "UnknownTool")]
    /\ UNCHANGED <<dbvars, callvars, ship, clock, listed, regvars>>

\* The steps of place_order, for calls drawing their arguments from Reqs.
PlaceOrderStep(Reqs) ==
    \/ \E p \in Calls : \E r \in Reqs : PlaceOrderCall(p, r)
    \/ \E p \in Calls : Validate(p)
    \/ \E p \in Calls : Commit1(p)
    \/ \E p \in Calls : Commit1Fail(p)
    \/ \E p \in Calls : Commit2(p)
    \/ \E p \in Calls : Commit2Fail(p)

\* Concurrent place_order calls.
Next == PlaceOrderStep(Requests)

Spec == Init /\ [][Next]_vars

\* One-line requests of business 1 for in-stock quantities.
ShipRequests ==
    {r \in Requests : r.business_id = 1 /\ Len(r.items) = 1
                      /\ r.items[1].item_id \in DOMAIN InitInventory
                      /\ r.items[1].qty >= 1}

\* Concurrent place_order and mark_order_shipped calls, and calls of
\* cancel_order.
NextStatus ==
    \/ PlaceOrderStep(ShipRequests)
    \/ \E s \in ShipCalls : \E o \in OwnerIds : \E oid \in 1..NCalls : ShipSelect(s, o, oid)
    \/ \E s \in ShipCalls : ShipCommit(s)
    \/ \E s \in OwnerCalls : \E oid \in 1..NCalls : CallUnregistered(s, "cancel_order", oid)

SpecStatus == Init /\ [][NextStatus]_vars

\* One-line requests of business 1 for one unit of an item in the catalogue.
CatalogRequests ==
    {r \in Requests : r.business_id = 1 /\ Len(r.items) = 1
                      /\ r.items[1].item_id \in DOMAIN InitInventory
                      /\ r.items[1].qty = 1}

\* The edits that leave the stock alone.
CatalogEdits == {e \in Edits : e.qty = <<>>}

\* The steps of the owner's inventory tools, called by the owners Os on the
\* item ids Is: edits, deletes of the rows of the initial catalogue, additions
\* to business 1.
OwnerStep(Os, Is) ==
    \/ \E s \in OwnerCalls : \E o \in Os : \E i \in Is : \E e \in CatalogEdits :
            UpdateSelect(s, o, i, e)
    \/ \E s \in OwnerCalls : UpdateCommit(s)
    \/ \E s \in OwnerCalls : \E o \in Os : \E i \in Is \cap DOMAIN InitInventory :
            DeleteSelect(s, o, i)
    \/ \E s \in OwnerCalls : DeleteCommit(s)
    \/ \E s \in OwnerCalls : \E o \in Os : \E it \in NewItems : AddSelect(s, o, 1, it)
    \/ \E s \in OwnerCalls : AddCommit(s)

\* Concurrent place_order calls and inventory edits.
NextCatalog ==
    \/ PlaceOrderStep(CatalogRequests)
    \/ OwnerStep(OwnerIds, 1..MaxItemId)

SpecCatalog == Init /\ [][NextCatalog]_vars

\* Concurrent place_order calls, edits of item 1 by its owner and
\* mark_order_shipped calls on the first order.
NextLifetime ==
    \/ PlaceOrderStep(CatalogRequests)
    \/ OwnerStep({1}, {1})
    \/ \E s \in ShipCalls : \E o \in OwnerIds : ShipSelect(s, o, 1)
    \/ \E s \in ShipCalls : ShipCommit(s)

SpecLifetime == Init /\ [][NextLifetime]_vars

\* update_item(qty=5): the owner restocks an item.
RestockEdits == {[NoEdit EXCEPT !.qty = <<5>>]}

\* Concurrent place_order calls and restocks of the catalogue's items by
\* their owner.
NextRestock ==
    \/ PlaceOrderStep(CatalogRequests)
    \/ \E s \in OwnerCalls : \E i \in DOMAIN InitInventory : \E e \in RestockEdits :
            UpdateSelect(s, 1, i, e)
    \/ \E s \in OwnerCalls : UpdateCommit(s)

SpecRestock == Init /\ [][NextRestock]_vars

\* update_item and add_item called with a qty or a price below zero: the
\* arguments are a plain int and float.
NegativeEdits == {[NoEdit EXCEPT !.qty = <<-1>>], [NoEdit EXCEPT !.price = <<-100>>]}
NegativeItems == {[name |-> "extra", price |-> -100, qty |-> -1]}

\* Concurrent place_order calls and owner calls with values below zero.
NextBounds ==
    \/ PlaceOrderStep(CatalogRequests)
    \/ \E s \in OwnerCalls : \E i \in DOMAIN InitInventory : \E e \in NegativeEdits :
            UpdateSelect(s, 1, i, e)
    \/ \E s \in OwnerCalls : UpdateCommit(s)
    \/ \E s \in OwnerCalls : \E it \in NegativeItems : AddSelect(s, 1, 1, it)
    \/ \E s \in OwnerCalls : AddCommit(s)

SpecBounds == Init /\ [][NextBounds]_vars

\* The request of business 1 for one widget.
GuardRequests == {[business_id |-> 1, items |-> <<[item_id |-> 1, qty |-> 1]>>]}

\* Two owners working side by side on the gadget and on new items, with
\* place_order and mark_order_shipped calls.
NextGuard ==
    \/ PlaceOrderStep(GuardRequests)
    \/ \E s \in ShipCalls : \E o \in OwnerIds : ShipSelect(s, o, 1)
    \/ \E s \in ShipCalls : ShipCommit(s)
    \/ \E s \in GuardCalls : \E o \in OwnerIds : \E e \in CatalogEdits : UpdateSelect(s, o, 2, e)
    \/ \E s \in GuardCalls : UpdateCommit(s)
    \/ \E s \in GuardCalls : \E o \in OwnerIds : DeleteSelect(s, o, 2)
    \/ \E s \in GuardCalls : DeleteCommit(s)
    \/ \E s \in GuardCalls : \E o \in OwnerIds : \E b \in BusinessIds : \E it \in NewItems :
            AddSelect(s, o, b, it)
    \/ \E s \in GuardCalls : AddCommit(s)

SpecGuard == InitOf(Calls, GuardCalls, InitInventory) /\ [][NextGuard]_vars

\* register calls and concurrent /register/submit requests.
NextRegister ==
    \/ RegisterTool
    \/ \E r \in RegCalls : \E t \in FormTokens : \E it \in FormItems : RegLookup(r, t, it)
    \/ \E r \in RegCalls : RegCommitOwner(r)
    \/ \E r \in RegCalls : RegCommitBusiness(r)
    \/ \E r \in RegCalls : RegCommitItem(r)

SpecRegister == Init /\ [][NextRegister]_vars

\* Requests of either business with no line, and requests of business 1 for
\* one widget.
ListRequests ==
    {r \in Requests : \/ r.items = <<>>
                      \/ r = [business_id |-> 1, items |-> <<[item_id |-> 1, qty |-> 1]>>]}

\* Concurrent place_order and list_orders calls while the clock moves.
NextList ==
    \/ PlaceOrderStep(ListRequests)
    \/ \E t \in 0..MaxClock : ClockMoves(t)
    \/ \E o \in OwnerIds : ListOrders(o)

SpecList == Init /\ [][NextList]_vars

\* ------------------------------------------------------ calls made in turn
\* A shop with five widgets at 2.50 and three gadgets at 1.00.
ScenarioInventory ==
    (1 :> [business_id |-> 1, name |-> "widget", price |-> 250, qty |-> 5]) @@
    (2 :> [business_id |-> 1, name |-> "gadget", price |-> 100, qty |-> 3])

\* Requests of business 1 for two or three units of each of one or two
\* different items of the shop.
SerialLines == [item_id : DOMAIN ScenarioInventory, qty : {2, 3}]
SerialRequests ==
    {r \in [business_id : {1}, items : SeqsUpTo(SerialLines, MaxLines)] :
        /\ r.items # <<>>
        /\ \A j, k \in 1..Len(r.items) :
              j # k => r.items[j].item_id # r.items[k].item_id}

\* Call p is made when the calls before it have returned.
SerialTurn(p) == \A q \in SerialCalls : q < p => pc[q] = "done"

\* place_order calls made one after the other, the storage accepting every
\* commit.
NextSerial ==
    \/ \E p \in SerialCalls : \E r \in SerialRequests : SerialTurn(p) /\ PlaceOrderCall(p, r)
    \/ \E p \in SerialCalls : Validate(p)
    \/ \E p \in SerialCalls : Commit1(p)
    \/ \E p \in SerialCalls : Commit2(p)

SpecSerial == InitWith(SerialCalls, ScenarioInventory) /\ [][NextSerial]_vars

\* ------------------------------------------------- the claims' vocabulary
\* Ids of the orders a call created (the call's customer_name is its own).
OrdersOf(p) == {o \in 1..Len(orders) : orders[o].customer_name = p}

\* Ids of the order lines stored for order o.
LinesOf(o) == {k \in 1..Len(order_items) : order_items[k].order_id = o}

\* Sum of the quantities of item_id over the stored order lines.
RECURSIVE PlacedQty(_, _)
PlacedQty(ois, item_id) ==
    IF ois = <<>> THEN 0
    ELSE (IF Head(ois).inventory_item_id = item_id THEN Head(ois).qty ELSE 0)
         + PlacedQty(Tail(ois), item_id)

\* Sum of total_price over the stored order lines of order o.
RECURSIVE SumTotalPrice(_, _)
SumTotalPrice(ois, o) ==
    IF ois = <<>> THEN 0
    ELSE (IF Head(ois).order_id = o THEN Head(ois).total_price ELSE 0)
         + SumTotalPrice(Tail(ois), o)

\* No two lines of the request name the same item.
DistinctItems(r) ==
    \A j, k \in 1..Len(r.items) : j # k => r.items[j].item_id # r.items[k].item_id

\* The request is empty or has a line with qty < 1.
Malformed(r) == r.items = <<>> \/ \E k \in 1..Len(r.items) : r.items[k].qty < 1

\* Some line of the request names an item that is absent or of another business.
HasForeignItem(r) ==
    \E k \in 1..Len(r.items) : ~Resolves(inventory, r.business_id, r.items[k].item_id)

AllDone == \A p \in Calls : pc[p] = "done"

\* ---------------------------------------------------------------- claims

\* C1: in every reachable state, after any interleaving of place_order calls,
\* the qty of every inventory item is >= 0.
C1_QtyNeverNegative == \A i \in DOMAIN inventory : inventory[i].qty >= 0

\* C2: no oversell.  For concurrent place_order calls (none naming an item
\* twice), the quantities of an item over all stored order lines never sum to
\* more than the item's initial stock.
C2_NoOversell ==
    (\A p \in Calls : DistinctItems(req[p])) =>
        \A i \in DOMAIN InitInventory : PlacedQty(order_items, i) <= InitInventory[i].qty

\* C3: stock decrements are linearizable per item.  Once every concurrent
\* call (none naming an item twice) has completed, each item's qty is its
\* initial qty minus the quantities of the placed order lines.
C3_NoLostDecrement ==
    (AllDone /\ \A p \in Calls : DistinctItems(req[p])) =>
        \A i \in DOMAIN InitInventory :
            inventory[i].qty = InitInventory[i].qty - PlacedQty(order_items, i)

\* The call p takes a validation step on a line, of a request naming no item
\* twice, whose item resolves and has less stock than the line asks for.
ShortLineStep(p) ==
    /\ pc[p] = "loop"
    /\ pc'[p] # "loop" \/ lines'[p] # lines[p]
    /\ DistinctItems(req[p])
    /\ LET it == req[p].items[Len(lines[p]) + 1]
       IN /\ Resolves(inventory, req[p].business_id, it.item_id)
          /\ inventory[it.item_id].qty < it.qty

\* C4: atomic basket.  A place_order call that reaches a line whose item has
\* less stock than requested fails there with the not-enough-stock result,
\* whatever the position of the line, having written no inventory row and
\* created no order or order line: the other items of the basket keep their
\* qty.
C4_AtomicBasket ==
    [][\A p \in Calls :
          ShortLineStep(p) =>
              /\ pc'[p] = "done"
              /\ result'[p].kind = "NotEnoughStock"
              /\ wrote'[p] = {}
              /\ inventory' = inventory
              /\ orders' = orders
              /\ order_items' = order_items
              /\ \A o \in 1..Len(orders) : orders[o].customer_name # p]_vars

\* C4 witness: a call for item 1 (in stock) and then item 2 (short) has run
\* alone and failed on its second line.
C4_Witness ==
    \E p \in Calls :
        /\ result[p].kind = "NotEnoughStock"
        /\ Len(req[p].items) = 2
        /\ req[p].business_id = 1
        /\ req[p].items[1].item_id = 1
        /\ req[p].items[1].qty \in 1..InitInventory[1].qty
        /\ req[p].items[2].item_id = 2
        /\ req[p].items[2].qty > InitInventory[2].qty
        /\ inventory = InitInventory
        /\ \A q \in Calls \ {p} : pc[q] = "idle"

\* C5: a place_order call that fails at any point, a failure of the first or
\* of the second commit included, has changed the qty of no inventory item.
C5_FailedCallWritesNoStock ==
    \A p \in Calls :
        (pc[p] = "done" /\ result[p].kind # "OrderPlaced") => wrote[p] = {}

\* C5 witness: the second commit of a call with a line of qty >= 1 failed
\* (its order row is stored, its lines are not).
C5_Witness ==
    \E p \in Calls :
        /\ pc[p] = "done"
        /\ result[p].kind = "CommitFailed"
        /\ OrdersOf(p) # {}
        /\ \E k \in 1..Len(req[p].items) : req[p].items[k].qty >= 1

\* C6: total invariant.  Every stored order has total_amount equal to the sum
\* of total_price over its stored order lines, and every stored order line
\* has total_price = qty * unit_price.
C6_TotalInvariant ==
    /\ \A o \in 1..Len(orders) : orders[o].total_amount = SumTotalPrice(order_items, o)
    /\ \A k \in 1..Len(order_items) :
           order_items[k].total_price = order_items[k].qty * order_items[k].unit_price

\* C7: the order and its lines are one transactional unit.  No committed
\* state holds an order (of a non-empty request) without order lines, or an
\* order line whose order does not exist.
C7_OrderWithLines ==
    /\ \A o \in 1..Len(orders) :
           req[orders[o].customer_name].items # <<>> => LinesOf(o) # {}
    /\ \A k \in 1..Len(order_items) : order_items[k].order_id \in 1..Len(orders)

\* C8: place_order rejects a request whose items list is empty or that has a
\* line with qty < 1, creating no order and changing no inventory.
C8_RejectsMalformed ==
    \A p \in Calls :
        (pc[p] = "done" /\ Malformed(req[p])) =>
            /\ result[p].kind # "OrderPlaced"
            /\ OrdersOf(p) = {}
            /\ wrote[p] = {}

\* C9: a request (with every qty >= 1) naming an item that is absent or of
\* another business is aborted with the item-not-found result and no side
\* effect (no order, no order line, no inventory change), wherever the
\* offending line stands.
C9_ForeignItemAborts ==
    \A p \in Calls :
        (pc[p] = "done" /\ ~Malformed(req[p]) /\ HasForeignItem(req[p])) =>
            /\ result[p].kind = "ItemNotFound"
            /\ OrdersOf(p) = {}
            /\ wrote[p] = {}

\* C10: mark_order_shipped on an order whose status is not pending returns an
\* invalid-transition error (and leaves the status as it was).
C10_ShipOnlyPending ==
    \A s \in ShipCalls :
        (ship[s].pc = "done" /\ ship[s].was \notin {"none", "pending"}) =>
            /\ ship[s].result = "InvalidTransition"
            /\ orders[ship[s].order_id].status = ship[s].was

\* The status moves the lifecycle allows.
AllowedMoves ==
    {<<"pending", "shipped">>, <<"shipped", "completed">>, <<"pending", "cancelled">>}

\* C11: an order's status starts at pending and only moves forward along
\* pending -> shipped -> completed or pending -> cancelled: every step keeps
\* the orders it finds (no order disappears), leaves each status as it is or
\* makes an allowed move, and stores a new order as pending.
C11_StatusForward ==
    [][/\ Len(orders') >= Len(orders)
       /\ \A o \in 1..Len(orders') :
            IF o <= Len(orders)
            THEN \/ orders'[o].status = orders[o].status
                 \/ <<orders[o].status, orders'[o].status>> \in AllowedMoves
            ELSE orders'[o].status = "pending"]_vars

\* C11 witness: an order has been moved from pending to shipped.
C11_Witness == \E o \in 1..Len(orders) : orders[o].status = "shipped"

\* C15: each place_order call (for a non-empty request with every qty >= 1)
\* that returns success has created exactly one order record, with status
\* pending; each call that returns or raises an error has created no order
\* record.
C15_OneOrderPerSuccess ==
    \A p \in Calls :
        (pc[p] = "done" /\ ~Malformed(req[p])) =>
            IF result[p].kind = "OrderPlaced"
            THEN /\ Cardinality(OrdersOf(p)) = 1
                 /\ \A o \in OrdersOf(p) : orders[o].status = "pending"
            ELSE OrdersOf(p) = {}

\* C19: place_order touches the stock of the items of a request (naming no
\* item twice, every qty >= 1) in ascending item-id order, whatever the
\* order of the lines: the lines it has read and checked so far have
\* ascending item ids.
C19_AscendingItemOrder ==
    \A p \in Calls :
        (DistinctItems(req[p]) /\ ~Malformed(req[p])) =>
            \A j, k \in 1..Len(lines[p]) :
                j < k => lines[p][j].item_id < lines[p][k].item_id

\* The step in which session s commits its update_item call.
UpdateCommitStep(s) ==
    /\ own[s].pc = "loaded"
    /\ own[s].op = "update_item"
    /\ own'[s].pc = "done"

\* The columns of an order line that snapshot the item.
Snapshot(oi) == <<oi.name, oi.unit_price, oi.total_price>>

\* C13: an update_item call that changes an item's price or name leaves the
\* total_amount of every stored order and the name, unit_price and
\* total_price of every stored order line as they were.
C13_PriceSnapshot ==
    [][(\E s \in OwnerCalls : UpdateCommitStep(s)) =>
          /\ Len(orders') = Len(orders)
          /\ \A o \in 1..Len(orders) : orders'[o].total_amount = orders[o].total_amount
          /\ Len(order_items') = Len(order_items)
          /\ \A k \in 1..Len(order_items) :
                Snapshot(order_items'[k]) = Snapshot(order_items[k])]_vars

\* An update_item call has changed the price and the name of an item that a
\* stored order line names, and the line keeps the old ones.
C13_Witness ==
    \E s \in OwnerCalls : \E k \in 1..Len(order_items) :
        /\ own[s] = OwnerDone("update_item", order_items[k].inventory_item_id, "Updated")
        /\ order_items[k].inventory_item_id \in DOMAIN inventory
        /\ inventory[order_items[k].inventory_item_id].price # order_items[k].unit_price
        /\ inventory[order_items[k].inventory_item_id].name # order_items[k].name

\* The columns of an order that are set when it is created.
Created(order) ==
    <<order.business_id, order.customer_name, order.total_amount, order.created_at>>

\* C16: once an order is stored, no step of mark_order_shipped, update_item,
\* delete_item, add_item or place_order changes its total_amount or its
\* customer columns, and no stored order line is changed or removed; the
\* only lines that appear are those written by the second commit of the
\* place_order call that is creating their order.  Only the status of a
\* stored order changes.
C16_OrderFrozen ==
    [][/\ Len(orders') >= Len(orders)
       /\ \A o \in 1..Len(orders) : Created(orders'[o]) = Created(orders[o])
       /\ Len(order_items') >= Len(order_items)
       /\ \A k \in 1..Len(order_items) : order_items'[k] = order_items[k]
       /\ \A k \in (Len(order_items) + 1)..Len(order_items') :
             /\ order_items'[k].order_id \in 1..Len(orders)
             /\ pc[orders[order_items'[k].order_id].customer_name] = "commit2"]_vars

\* An order has been shipped, a later order has been placed with its lines,
\* and the item the shipped order names has been edited and then deleted.
C16_Witness ==
    \E o \in 1..Len(orders) : \E k \in LinesOf(o) :
        /\ orders[o].status = "shipped"
        /\ order_items[k].inventory_item_id \notin DOMAIN inventory
        /\ order_items[k].unit_price = 300
        /\ \E o2 \in 1..Len(orders) : o2 > o /\ LinesOf(o2) # {}

\* The step in which session s commits its delete_item call.
DeleteCommitStep(s) ==
    /\ own[s].pc = "loaded"
    /\ own[s].op = "delete_item"
    /\ own'[s].pc = "done"

\* Whether a stored order line names item_id.
Ordered(ois, item_id) == \E k \in 1..Len(ois) : ois[k].inventory_item_id = item_id

\* C17: a delete_item call on an item that stored order lines name removes
\* the inventory row and nothing else: the other inventory rows, the orders
\* and the order lines (the lines naming the item included) stay as they were.
C17_DeleteKeepsOrders ==
    [][\A s \in OwnerCalls :
          (DeleteCommitStep(s) /\ Ordered(order_items, own[s].target)) =>
              /\ DOMAIN inventory' = DOMAIN inventory \ {own[s].target}
              /\ \A i \in DOMAIN inventory' : inventory'[i] = inventory[i]
              /\ orders' = orders
              /\ order_items' = order_items]_vars

\* A delete_item call has removed an item and a stored order line still
\* names it.
C17_Witness ==
    \E s \in OwnerCalls : \E k \in 1..Len(order_items) :
        /\ own[s] = OwnerDone("delete_item", order_items[k].inventory_item_id, "Deleted")
        /\ order_items[k].inventory_item_id \notin DOMAIN inventory

\* The step in which call p commits its order lines and stock updates.
PlacedStep(p) ==
    /\ pc[p] = "commit2"
    /\ pc'[p] = "done"
    /\ result'[p].kind = "OrderPlaced"

\* Sum of qty * price over the accepted lines ls, at the prices of the
\* inventory rows inv.
RECURSIVE TotalAt(_, _)
TotalAt(inv, ls) ==
    IF ls = <<>> THEN 0
    ELSE LineTotal(inv[Head(ls).item_id].price, Head(ls).qty) + TotalAt(inv, Tail(ls))

\* C18: the unit_price of each order line, and the price that went into
\* total_amount, is the price the item has in the store at the moment the
\* call decrements its stock (the second commit), also when an update_item
\* call changed the price after place_order read the item.
C18_PriceAtDecrement ==
    [][\A p \in Calls :
          (PlacedStep(p) /\ \A k \in 1..Len(lines[p]) : lines[p][k].item_id \in DOMAIN inventory) =>
              /\ \A k \in (Len(order_items) + 1)..Len(order_items') :
                    order_items'[k].unit_price =
                        inventory[order_items'[k].inventory_item_id].price
              /\ orders'[order_id[p]].total_amount = TotalAt(inventory, lines[p])]_vars

\* The step in which session s is answered for its cancel_order call.
CancelStep(s) ==
    /\ own'[s] # own[s]
    /\ own'[s].pc = "done"
    /\ own'[s].op = "cancel_order"

\* The stored lines of order o.
OrderLines(ois, o) == SelectSeq(ois, LAMBDA oi : oi.order_id = o)

\* C12: cancel_order on a shipped order fails with InvalidTransition and
\* changes nothing; cancel_order on a pending order (whose place_order call
\* has returned) sets its status to cancelled and adds back to every item
\* the quantity the order's lines took.
C12_CancelOrder ==
    [][\A s \in OwnerCalls :
          (/\ CancelStep(s)
           /\ own'[s].target \in 1..Len(orders)
           /\ pc[orders[own'[s].target].customer_name] = "done") =>
              LET o == own'[s].target
              IN /\ orders[o].status = "shipped" =>
                       /\ own'[s].result = "InvalidTransition"
                       /\ UNCHANGED dbvars
                 /\ orders[o].status = "pending" =>
                       /\ orders'[o].status = "cancelled"
                       /\ DOMAIN inventory' = DOMAIN inventory
                       /\ \A i \in DOMAIN inventory :
                             inventory'[i].qty =
                                 inventory[i].qty + PlacedQty(OrderLines(order_items, o), i)]_vars

\* The stock of item i before the p-th call made in turn: the initial stock
\* less what the orders placed by the calls before it asked for.
RECURSIVE StockBefore(_, _)
StockBefore(p, i) ==
    IF p = 1 THEN ScenarioInventory[i].qty
    ELSE StockBefore(p - 1, i)
         - (IF result[p - 1].kind = "OrderPlaced" THEN SumQty(req[p - 1].items, i) ELSE 0)

\* Every line of the p-th call's request was in stock when the call was made.
InStockBefore(p) ==
    \A k \in 1..Len(req[p].items) :
        StockBefore(p, req[p].items[k].item_id) >= req[p].items[k].qty

\* A request for q widgets.
Widgets(q) == [business_id |-> 1, items |-> <<[item_id |-> 1, qty |-> q]>>]

\* C14: with the calls made one at a time, a call whose every line is in
\* stock succeeds and reports total = sum of qty * price over its lines, a
\* call with a line above the remaining stock fails, and the stock of every
\* item is the initial stock less exactly what the successful calls asked
\* for (so a failed call leaves it unchanged and an order for exactly the
\* rest leaves 0).  With five widgets at 2.50, orders of 3, 3 and 2 give
\* success with total 7.50 and stock 2, failure with stock 2, success with
\* stock 0.
C14_SerialOrders ==
    /\ \A p \in SerialCalls :
          pc[p] = "done" =>
              IF InStockBefore(p)
              THEN /\ result[p].kind = "OrderPlaced"
                   /\ result[p].total = TotalAt(ScenarioInventory, req[p].items)
              ELSE result[p].kind = "NotEnoughStock"
    /\ \A p \in SerialCalls :
          (pc[p] = "done" /\ \A q \in SerialCalls : q > p => pc[q] = "idle") =>
              \A i \in DOMAIN ScenarioInventory :
                  /\ i \in DOMAIN inventory
                  /\ inventory[i].qty = StockBefore(p + 1, i)
    /\ (pc[1] = "done" /\ pc[2] = "idle" /\ req[1] = Widgets(3)) =>
          /\ result[1].kind = "OrderPlaced"
          /\ result[1].total = 750
          /\ inventory[1].qty = 2
    /\ (pc[2] = "done" /\ pc[3] = "idle" /\ req[1] = Widgets(3) /\ req[2] = Widgets(3)) =>
          /\ result[2].kind = "NotEnoughStock"
          /\ inventory[1].qty = 2
    /\ (pc[3] = "done" /\ req[1] = Widgets(3) /\ req[2] = Widgets(3) /\ req[3] = Widgets(2)) =>
          /\ result[3].kind = "OrderPlaced"
          /\ inventory[1].qty = 0

\* Orders of 3, 3 and 2 widgets have been made in turn and the last one left
\* no widget.
C14_Witness ==
    /\ \A p \in SerialCalls : pc[p] = "done"
    /\ req[1] = Widgets(3) /\ req[2] = Widgets(3) /\ req[3] = Widgets(2)
    /\ result[3].kind = "OrderPlaced"
    /\ inventory[1].qty = 0

\* C20: a list_orders call returns exactly the orders of the businesses the
\* given owner owns, each once and as stored, in non-increasing created_at
\* order, and changes no state.
C20_ListOrders ==
    [][listed' # listed =>
          LET out == listed'.out
              owner_id == listed'.owner_id
          IN /\ {out[k].id : k \in 1..Len(out)} =
                    {o \in 1..Len(orders) : BusinessOwner[orders[o].business_id] = owner_id}
             /\ \A j, k \in 1..Len(out) : j # k => out[j].id # out[k].id
             /\ \A k \in 1..Len(out) :
                   /\ out[k].status = orders[out[k].id].status
                   /\ out[k].total_amount = orders[out[k].id].total_amount
                   /\ out[k].customer_name = orders[out[k].id].customer_name
                   /\ out[k].created_at = orders[out[k].id].created_at
             /\ \A j, k \in 1..Len(out) : j < k => out[j].created_at >= out[k].created_at
             /\ UNCHANGED <<dbvars, callvars, ship, own, clock, regvars>>]_vars

\* A list_orders call returned two orders of the owner, the one stored
\* second created later and listed first.
C20_Witness ==
    /\ Len(listed.out) = 2
    /\ listed.out[1].id = 2
    /\ listed.out[2].id = 1
    /\ listed.out[1].created_at > listed.out[2].created_at

\* An update_item call on item i committed a new qty after call p, the only
\* place_order call made so far, loaded the item.
EditedSinceLoad(p, i) ==
    /\ i \in DOMAIN inventory
    /\ i \in DOMAIN sess[p]
    /\ inventory[i].qty # sess[p][i].qty
    /\ \E s \in OwnerCalls : own[s] = OwnerDone("update_item", i, "Updated")
    /\ \A p2 \in Calls \ {p} : pc[p2] = "idle"

\* C21: when update_item(qty=V) commits while a place_order for q of the same
\* item is between its stock check and its second commit, the qty the order
\* leaves is V (as if the order came first) or V - q with V >= q (as if the
\* edit came first).  V is the qty in the store when the order commits.
C21_EditNotOverwritten ==
    [][\A p \in Calls :
          (/\ PlacedStep(p)
           /\ Len(lines[p]) = 1
           /\ EditedSinceLoad(p, lines[p][1].item_id)) =>
              LET i == lines[p][1].item_id
                  q == lines[p][1].qty
                  V == inventory[i].qty
              IN \/ inventory'[i].qty = V
                 \/ V >= q /\ inventory'[i].qty = V - q]_vars

\* C22: after any add_item or update_item call every inventory item has
\* qty >= 0 and price >= 0 (a call that supplies a value below zero is
\* rejected and changes nothing).
C22_OwnerEditsInBounds ==
    \A i \in DOMAIN inventory : inventory[i].qty >= 0 /\ inventory[i].price >= 0

\* Call p is the only place_order call made so far.
RunAlone(p) == \A p2 \in Calls \ {p} : pc[p2] = "idle"

\* C23: a place_order call run alone whose request names an item in more
\* than one line succeeds only if the quantities of those lines sum to at
\* most the item's stock, and then the stock has decreased by exactly that
\* sum and is >= 0.
C23_DuplicateLinesSummed ==
    \A p \in Calls :
        (/\ pc[p] = "done"
         /\ result[p].kind = "OrderPlaced"
         /\ RunAlone(p)
         /\ ~Malformed(req[p])
         /\ ~DistinctItems(req[p])) =>
            \A i \in DOMAIN InitInventory :
                /\ SumQty(req[p].items, i) <= InitInventory[i].qty
                /\ inventory[i].qty = InitInventory[i].qty - SumQty(req[p].items, i)
                /\ inventory[i].qty >= 0

\* The inventory rows a step adds, removes or changes belong, before and
\* after the step, to businesses of owner_id.
InventoryTouchedOwnedBy(owner_id) ==
    /\ \A i \in DOMAIN inventory :
          (i \notin DOMAIN inventory' \/ inventory'[i] # inventory[i]) =>
              BusinessOwnedBy(owner_id, inventory[i].business_id)
    /\ \A i \in DOMAIN inventory' :
          (i \notin DOMAIN inventory \/ inventory'[i] # inventory[i]) =>
              BusinessOwnedBy(owner_id, inventory'[i].business_id)

\* The guard of add_item, update_item and delete_item: a session goes on
\* past its SELECT only when its owner_id owns the target, and a call that
\* returns at the SELECT writes nothing.
GuardAtSelect ==
    \A s \in GuardCalls :
        (own[s].pc # "loaded" /\ own'[s] # own[s]) =>
            /\ UNCHANGED dbvars
            /\ own'[s].pc = "loaded" =>
                  IF own'[s].op = "add_item"
                  THEN BusinessOwnedBy(own'[s].owner_id, own'[s].target)
                  ELSE ItemOwnedBy(inventory, own'[s].owner_id, own'[s].target)
            /\ own'[s].pc = "done" => own'[s].result = "NotFound"

\* The guard of mark_order_shipped, for the SELECT and for the commit.
GuardOfShip ==
    \A s \in ShipCalls :
        /\ (ship[s].pc # "loaded" /\ ship'[s] # ship[s]) =>
              /\ UNCHANGED dbvars
              /\ IF OrderOwnedBy(orders, ship'[s].owner_id, ship'[s].order_id)
                 THEN ship'[s].pc = "loaded"
                 ELSE ship'[s].pc = "done" /\ ship'[s].result = "NotFound"
        /\ (ship[s].pc = "loaded" /\ ship'[s].pc = "done") =>
              /\ UNCHANGED <<inventory, order_items>>
              /\ Len(orders') = Len(orders)
              /\ \A o \in 1..Len(orders) :
                    orders'[o] # orders[o] =>
                        BusinessOwnedBy(ship[s].owner_id, orders[o].business_id)

\* A committing add_item, update_item or delete_item call changes only
\* inventory rows of the businesses of its owner_id.
GuardAtCommit ==
    \A s \in GuardCalls :
        (own[s].pc = "loaded" /\ own'[s].pc = "done") =>
            /\ UNCHANGED <<orders, order_items>>
            /\ InventoryTouchedOwnedBy(own[s].owner_id)

\* C24: add_item, update_item, delete_item and mark_order_shipped called
\* with an owner_id that does not own the target return not-found and leave
\* every item and order unchanged, and a successful call changes only
\* records of a business owned by its owner_id.
C24_OwnershipGuard == [][GuardAtSelect /\ GuardOfShip /\ GuardAtCommit]_vars

\* The /register/submit requests that carried the token t and created a
\* business.
Registered(t) == {r \in RegCalls : reg[r].token = <<t>> /\ reg[r].business_id # 0}

\* C25: of the /register/submit requests carrying the same token at most
\* one creates a business; every other one is answered "Invalid token" and
\* creates nothing.
C25_TokenSingleUse ==
    \A t \in 1..MaxOwners :
        /\ Cardinality(Registered(t)) <= 1
        /\ \A r \in RegCalls :
              (reg[r].token = <<t>> /\ reg[r].pc = "done" /\ r \notin Registered(t)) =>
                  reg[r].result = "InvalidToken"

\* The item ids a request names.
ItemsOf(r) == {r.items[k].item_id : k \in 1..Len(r.items)}

\* What a call with the lines ls on business b returns when it is the only
\* call made on the initial inventory.
RECURSIVE AloneKind(_, _)
AloneKind(b, ls) ==
    IF ls = <<>> THEN "OrderPlaced"
    ELSE IF ~Resolves(InitInventory, b, Head(ls).item_id) THEN "ItemNotFound"
    ELSE IF InsufficientStock(InitInventory[Head(ls).item_id].qty, Head(ls).qty)
         THEN "NotEnoughStock"
    ELSE AloneKind(b, Tail(ls))

\* A step changes no inventory row but the rows of the items named by the
\* call that commits in it, and of those only the qty.
OnlyNamedQtyChanges ==
    /\ DOMAIN inventory' = DOMAIN inventory
    /\ \A i \in DOMAIN inventory :
          inventory'[i] # inventory[i] =>
              /\ inventory'[i] = [inventory[i] EXCEPT !.qty = inventory'[i].qty]
              /\ \E p \in Calls : /\ pc[p] = "commit2"
                                  /\ pc'[p] = "done"
                                  /\ i \in ItemsOf(req[p])

\* A call that has returned, with no other call made on any of its items,
\* has the result and has left the stock of its items as when run alone.
DisjointAsAlone ==
    \A p \in Calls :
        (/\ pc[p] = "done"
         /\ result[p].kind # "CommitFailed"
         /\ ~Malformed(req[p])
         /\ DistinctItems(req[p])
         /\ \A q \in Calls \ {p} : ItemsOf(req[q]) \cap ItemsOf(req[p]) = {}) =>
            /\ result[p].kind = AloneKind(req[p].business_id, req[p].items)
            /\ result[p].kind = "OrderPlaced" =>
                  result[p].total = TotalAt(InitInventory, req[p].items)
            /\ \A i \in ItemsOf(req[p]) \cap DOMAIN InitInventory :
                  inventory[i].qty =
                      InitInventory[i].qty
                      - (IF result[p].kind = "OrderPlaced" THEN SumQty(req[p].items, i) ELSE 0)

\* C26: a place_order call changes the qty of only the items its request
\* names; every other item and every other column of the named items stay
\* as they were, so calls on disjoint item sets each end with the result
\* and the stock they have when run alone.
C26_Frame == [][OnlyNamedQtyChanges]_vars /\ []DisjointAsAlone

\* Two calls on different items have both placed their orders.
C26_Witness ==
    /\ \A p \in Calls : pc[p] = "done" /\ result[p].kind = "OrderPlaced"
    /\ ItemsOf(req[1]) = {1}
    /\ ItemsOf(req[2]) = {2}
    /\ inventory[1].qty < InitInventory[1].qty
    /\ inventory[2].qty < InitInventory[2].qty


====
